---- MODULE Spec2Model ----
(***************************************************************************)
(* A model of the URL router of src/index.ts: createRouter (route table,   *)
(* parse, open, popstate, the connect hook), getPagePath, openPage and     *)
(* redirectPage, running in a browser (window, location and history are    *)
(* defined).                                                               *)
(*                                                                         *)
(* JavaScript strings are sequences of one-character strings, so that the  *)
(* regular expressions and the string replacements of the source are       *)
(* computed character by character.  JavaScript values are records with a  *)
(* field "kind".                                                           *)
(***************************************************************************)
EXTENDS Integers, Sequences, FiniteSets, TLC

(***************************************************************************)
(* Characters.                                                             *)
(***************************************************************************)

\* The grave accent (code 96), which a string literal cannot hold.
Grave == "<grave>"

\* The printable ASCII characters, code 32 (space) to 126 (~), in order.
Ascii ==
  << " ", "!", "\"", "#", "$", "%", "&", "'", "(", ")", "*", "+", ",", "-", ".", "/",
     "0", "1", "2", "3", "4", "5", "6", "7", "8", "9", ":", ";", "<", "=", ">", "?",
     "@", "A", "B", "C", "D", "E", "F", "G", "H", "I", "J", "K", "L", "M", "N", "O",
     "P", "Q", "R", "S", "T", "U", "V", "W", "X", "Y", "Z", "[", "\\", "]", "^", "_",
     Grave, "a", "b", "c", "d", "e", "f", "g", "h", "i", "j", "k", "l", "m", "n", "o",
     "p", "q", "r", "s", "t", "u", "v", "w", "x", "y", "z", "{", "|", "}", "~" >>

\* The code of a printable ASCII character.
Ord(c) == 31 + CHOOSE i \in 1..Len(Ascii) : Ascii[i] = c

\* A character that is not printable ASCII (a control character).
OtherChar == "<ctl>"

\* The character of a code below 128.
Chr(n) == IF n >= 32 /\ n <= 126 THEN Ascii[n - 31] ELSE OtherChar

Digits == {"0", "1", "2", "3", "4", "5", "6", "7", "8", "9"}

UpperCase == {Ascii[i] : i \in 34..59}

LowerCase == {Ascii[i] : i \in 66..91}

\* The class \w of a regular expression: [A-Za-z0-9_].
WordChars == UpperCase \cup LowerCase \cup Digits \cup {"_"}

\* Case folding of the regular expression flag i (ASCII letters).
Fold(c) == IF c \in UpperCase THEN Chr(Ord(c) + 32) ELSE c

HexDigits == Digits \cup {"A", "B", "C", "D", "E", "F", "a", "b", "c", "d", "e", "f"}

HexVal(c) ==
  IF c \in Digits THEN Ord(c) - 48
  ELSE IF c \in UpperCase THEN Ord(c) - 55
  ELSE Ord(c) - 87

HexChar(n) == IF n < 10 THEN Chr(48 + n) ELSE Chr(55 + n)

(***************************************************************************)
(* JavaScript values.                                                      *)
(***************************************************************************)

Undefined == [kind |-> "undefined"]

Str(s) == [kind |-> "string", v |-> s]

Num(n) == [kind |-> "number", v |-> n]

\* An object with string-valued own properties: a function from names to
\* strings.
Obj(f) == [kind |-> "object", v |-> f]

\* The empty object {}.
EmptyObject == Obj(<<>>)

\* An exception that ended the running operation.
Thrown(e) == [kind |-> "throw", error |-> e]

IsThrown(x) == x.kind = "throw"

RECURSIVE DecimalDigits(_)
\* The decimal digits of a natural number.
DecimalDigits(n) ==
  IF n < 10 THEN << Chr(48 + n) >>
  ELSE Append(DecimalDigits(n \div 10), Chr(48 + (n % 10)))

\* String(x), the conversion encodeURIComponent applies to its argument.
ToStr(x) ==
  CASE x.kind = "string" -> x.v
    [] x.kind = "undefined" -> << "u", "n", "d", "e", "f", "i", "n", "e", "d" >>
    [] x.kind = "number" -> DecimalDigits(x.v)
    [] OTHER ->
         << "[", "o", "b", "j", "e", "c", "t", " ", "O", "b", "j", "e", "c", "t", "]" >>

\* Truthiness of a value.
Truthy(x) ==
  CASE x.kind = "string" -> x.v # << >>
    [] x.kind = "undefined" -> FALSE
    [] x.kind = "number" -> x.v # 0
    [] OTHER -> TRUE

(***************************************************************************)
(* encodeURIComponent and decodeURIComponent, over ASCII.                  *)
(***************************************************************************)

\* The characters encodeURIComponent leaves as they are.
Unreserved == WordChars \cup {"-", ".", "!", "~", "*", "'", "(", ")"}

RECURSIVE EncodeURIComponent(_)
EncodeURIComponent(s) ==
  IF s = << >> THEN << >>
  ELSE LET c == Head(s)
           e == IF c \in Unreserved THEN << c >>
                ELSE << "%", HexChar(Ord(c) \div 16), HexChar(Ord(c) % 16) >>
       IN  e \o EncodeURIComponent(Tail(s))

RECURSIVE DecodeFrom(_, _)
\* decodeURIComponent of s from position i on: Str(text), or Thrown("URIError")
\* when a "%" is not followed by two hexadecimal digits or the escaped byte is
\* not an ASCII byte (a byte of 128 or more that does not start a well-formed
\* UTF-8 sequence; the paths of this model hold no UTF-8 sequences).
DecodeFrom(s, i) ==
  IF i > Len(s) THEN Str(<< >>)
  ELSE IF s[i] # "%"
    THEN LET rest == DecodeFrom(s, i + 1)
         IN  IF IsThrown(rest) THEN rest ELSE Str(<< s[i] >> \o rest.v)
  ELSE IF i + 2 > Len(s) \/ s[i + 1] \notin HexDigits \/ s[i + 2] \notin HexDigits
    THEN Thrown("URIError")
  ELSE LET b == 16 * HexVal(s[i + 1]) + HexVal(s[i + 2])
           rest == DecodeFrom(s, i + 3)
       IN  IF b >= 128 THEN Thrown("URIError")
           ELSE IF IsThrown(rest) THEN rest
           ELSE Str(<< Chr(b) >> \o rest.v)

DecodeURIComponent(s) == DecodeFrom(s, 1)

(***************************************************************************)
(* Regular expressions: the ones the template compiler builds, and the     *)
(* string replacements that build them.                                    *)
(***************************************************************************)

RECURSIVE WordRun(_, _)
\* The length of the longest run of \w characters of s that starts at i.
WordRun(s, i) ==
  IF i <= Len(s) /\ s[i] \in WordChars THEN 1 + WordRun(s, i + 1) ELSE 0

\* Whether text t occurs in s at position i.
OccursAt(s, i, t) ==
  /\ i + Len(t) - 1 <= Len(s)
  /\ \A k \in 1..Len(t) : s[i + k - 1] = t[k]

\* value.replace(/\/$/g, '') || '/'
StripTrailingSlash(value) ==
  LET stripped == IF value # << >> /\ value[Len(value)] = "/"
                  THEN SubSeq(value, 1, Len(value) - 1)
                  ELSE value
  IN  IF stripped = << >> THEN << "/" >> ELSE stripped

RECURSIVE ParamNamesFrom(_, _)
\* (value.match(/\/:\w+/g) || []).map(i => i.slice(2)), from position i on.
ParamNamesFrom(value, i) ==
  IF i > Len(value) THEN << >>
  ELSE IF OccursAt(value, i, << "/", ":" >>) /\ WordRun(value, i + 2) > 0
    THEN LET n == WordRun(value, i + 2)
         IN  << SubSeq(value, i + 2, i + 1 + n) >> \o ParamNamesFrom(value, i + 2 + n)
  ELSE ParamNamesFrom(value, i + 1)

ParamNames(value) == ParamNamesFrom(value, 1)

\* The class [\s!#$()+,.:<=?[\\\]^{|}] of the characters the compiler escapes.
EscapedChars ==
  {" ", "!", "#", "$", "(", ")", "+", ",", ".", ":", "<", "=", "?", "[", "\\", "]",
   "^", "{", "|", "}"}

RECURSIVE EscapeTemplate(_)
\* value.replace(/[\s!#$()+,.:<=?[\\\]^{|}]/g, '\\$&')
EscapeTemplate(value) ==
  IF value = << >> THEN << >>
  ELSE (IF Head(value) \in EscapedChars THEN << "\\", Head(value) >> ELSE << Head(value) >>)
       \o EscapeTemplate(Tail(value))

\* The text '/?([^/]*)' that replaces an optional parameter marker.
OptionalGroup == << "/", "?", "(", "[", "^", "/", "]", "*", ")" >>

\* The text '/([^/]+)' that replaces a required parameter marker.
RequiredGroup == << "/", "(", "[", "^", "/", "]", "+", ")" >>

RECURSIVE ReplaceOptionalMarkers(_, _)
\* pattern.replace(/\/\\:\w+\\\?/g, '/?([^/]*)'), from position i on.
ReplaceOptionalMarkers(p, i) ==
  IF i > Len(p) THEN << >>
  ELSE LET n == WordRun(p, i + 3)
       IN  IF /\ OccursAt(p, i, << "/", "\\", ":" >>)
              /\ n > 0
              /\ OccursAt(p, i + 3 + n, << "\\", "?" >>)
           THEN OptionalGroup \o ReplaceOptionalMarkers(p, i + 5 + n)
           ELSE << p[i] >> \o ReplaceOptionalMarkers(p, i + 1)

RECURSIVE ReplaceRequiredMarkers(_, _)
\* pattern.replace(/\/\\:\w+/g, '/([^/]+)'), from position i on.
ReplaceRequiredMarkers(p, i) ==
  IF i > Len(p) THEN << >>
  ELSE LET n == WordRun(p, i + 3)
       IN  IF OccursAt(p, i, << "/", "\\", ":" >>) /\ n > 0
           THEN RequiredGroup \o ReplaceRequiredMarkers(p, i + 3 + n)
           ELSE << p[i] >> \o ReplaceRequiredMarkers(p, i + 1)

\* The source text of the regular expression of a template.
PatternSource(value) ==
  ReplaceRequiredMarkers(ReplaceOptionalMarkers(EscapeTemplate(value), 1), 1)

\* The atoms of a regular expression: a character with a quantifier ("one",
\* "opt" for ?, "star" for *), or a capturing group ([^/]*) (min 0) or
\* ([^/]+) (min 1).
CharAtom(c, q) == [type |-> "char", c |-> c, q |-> q, min |-> 0]

GroupAtom(min) == [type |-> "group", c |-> "", q |-> "one", min |-> min]

RECURSIVE ParseRegExp(_, _, _)
\* RegExp(source): the atoms of source from position i on, after the atoms
\* acc read so far.  An escaped character stands for itself; an unescaped
\* "(" opens one of the two groups the compiler writes; an unescaped "?" or
\* "*" quantifies the atom before it.
ParseRegExp(src, i, acc) ==
  IF i > Len(src) THEN acc
  ELSE IF src[i] = "\\"
    THEN ParseRegExp(src, i + 2, Append(acc, CharAtom(src[i + 1], "one")))
  ELSE IF OccursAt(src, i, << "(", "[", "^", "/", "]", "*", ")" >>)
    THEN ParseRegExp(src, i + 7, Append(acc, GroupAtom(0)))
  ELSE IF OccursAt(src, i, << "(", "[", "^", "/", "]", "+", ")" >>)
    THEN ParseRegExp(src, i + 7, Append(acc, GroupAtom(1)))
  ELSE IF src[i] \in {"?", "*"} /\ acc # << >>
    THEN ParseRegExp(src, i + 1,
           [acc EXCEPT ![Len(acc)].q = IF src[i] = "?" THEN "opt" ELSE "star"])
  ELSE ParseRegExp(src, i + 1, Append(acc, CharAtom(src[i], "one")))

\* Whether an atom accepts character c, under flag i when ci.
AtomAccepts(atom, c, ci) ==
  IF atom.type = "group" THEN c # "/"
  ELSE IF ci THEN Fold(atom.c) = Fold(c)
  ELSE atom.c = c

RECURSIVE AcceptRun(_, _, _, _)
\* The number of consecutive characters of s from j on that the atom accepts.
AcceptRun(atom, s, j, ci) ==
  IF j <= Len(s) /\ AtomAccepts(atom, s[j], ci)
  THEN 1 + AcceptRun(atom, s, j + 1, ci)
  ELSE 0

NoMatch == [ok |-> FALSE, caps |-> << >>]

RECURSIVE MatchFrom(_, _, _, _, _)
RECURSIVE MatchTaking(_, _, _, _, _, _, _)
\* The match of atoms k.. against s from j to its end ('^' and '$' anchor the
\* expression), with the texts of the groups, as a backtracking matcher
\* finds it: every quantifier is greedy and gives back one character at a
\* time.
MatchFrom(atoms, k, s, j, ci) ==
  IF k > Len(atoms)
  THEN IF j = Len(s) + 1 THEN [ok |-> TRUE, caps |-> << >>] ELSE NoMatch
  ELSE LET atom == atoms[k]
           run == AcceptRun(atom, s, j, ci)
           lo == IF atom.type = "group" THEN atom.min
                 ELSE IF atom.q = "one" THEN 1 ELSE 0
           hi == IF atom.type = "group" \/ atom.q = "star" THEN run
                 ELSE IF run > 0 THEN 1 ELSE 0
       IN  IF hi < lo THEN NoMatch
           ELSE MatchTaking(atoms, k, s, j, ci, hi, lo)

\* Atom k takes n characters, or, failing that, fewer, down to lo.
MatchTaking(atoms, k, s, j, ci, n, lo) ==
  LET rest == MatchFrom(atoms, k + 1, s, j + n, ci)
  IN  IF rest.ok
      THEN IF atoms[k].type = "group"
           THEN [ok |-> TRUE, caps |-> << SubSeq(s, j, j + n - 1) >> \o rest.caps]
           ELSE rest
      ELSE IF n > lo THEN MatchTaking(atoms, k, s, j, ci, n - 1, lo)
      ELSE NoMatch

\* path.match(pattern): pattern is [atoms, ci].
Match(path, pattern) == MatchFrom(pattern.atoms, 1, path, 1, pattern.ci)

\* RegExp('^' + pattern + '$', 'i')
TemplateRegExp(value) ==
  [atoms |-> ParseRegExp(PatternSource(value), 1, << >>), ci |-> TRUE]

(***************************************************************************)
(* The route table (createRouter, router.routes).                          *)
(***************************************************************************)

\* A value of the configuration: a path template, or a prebuilt pair of a
\* regular expression and a decoder.  The decoders of this model name their
\* arguments: (...parts) => ({ [names[i]]: parts[i] }).
Template(t) == [kind |-> "template", v |-> t, regexp |-> NoMatch, names |-> << >>]

Pattern(re, names) == [kind |-> "pattern", v |-> << >>, regexp |-> re, names |-> names]

\* An entry of the configuration object.
Entry(name, value) == [name |-> name, value |-> value]

\* Whether a property name is an array index ("0", "7", "404"): such keys
\* come first, in ascending order, when the keys of an object are listed.
\* (Names of ten digits and more, which may exceed 2^32 - 2, are not in the
\* configurations of this model.)
IsArrayIndex(name) ==
  /\ name # << >>
  /\ Len(name) <= 9
  /\ \A k \in 1..Len(name) : name[k] \in Digits
  /\ Len(name) > 1 => name[1] # "0"

RECURSIVE NumVal(_)
\* The number a string of digits denotes.
NumVal(name) ==
  IF name = << >> THEN 0
  ELSE 10 * NumVal(SubSeq(name, 1, Len(name) - 1)) + (Ord(name[Len(name)]) - 48)

RECURSIVE InsertAscending(_, _)
\* An array index key put at its place in an ascending list of them.
InsertAscending(keys, name) ==
  IF keys = << >> THEN << name >>
  ELSE IF NumVal(name) < NumVal(Head(keys)) THEN << name >> \o keys
  ELSE << Head(keys) >> \o InsertAscending(Tail(keys), name)

RECURSIVE IndexKeys(_)
\* The array index keys of a configuration, ascending.
IndexKeys(config) ==
  IF config = << >> THEN << >>
  ELSE LET name == config[Len(config)].name
           before == IndexKeys(SubSeq(config, 1, Len(config) - 1))
       IN  IF IsArrayIndex(name) THEN InsertAscending(before, name) ELSE before

RECURSIVE StringKeys(_)
\* The other keys of a configuration, in the order they were declared.
StringKeys(config) ==
  IF config = << >> THEN << >>
  ELSE (IF IsArrayIndex(Head(config).name) THEN << >> ELSE << Head(config).name >>)
       \o StringKeys(Tail(config))

\* Object.keys(routes)
ObjectKeys(config) == IndexKeys(config) \o StringKeys(config)

\* routes[name]
ConfigValue(config, name) ==
  config[CHOOSE k \in 1..Len(config) : config[k].name = name].value

\* The decoder of a template, (...matches) => matches.reduce(...), from
\* match index on: each match is written, URL-decoded, under the name at its
\* index.  Obj(params), or Thrown("URIError") when decodeURIComponent throws.
RECURSIVE DecodeMatches_Raw(_, _, _, _)
\* A decoder that stores each match as it is.
DecodeMatches_Raw(names, matches, index, params) ==
  IF index > Len(matches) THEN Obj(params)
  ELSE LET key == IF index <= Len(names) THEN names[index] ELSE ToStr(Undefined)
       IN  DecodeMatches_Raw(names, matches, index + 1, (key :> matches[index]) @@ params)

RECURSIVE DecodeMatches(_, _, _, _)
DecodeMatches(names, matches, index, params) ==
  IF index > Len(matches) THEN Obj(params)
  ELSE LET key == IF index <= Len(names) THEN names[index] ELSE ToStr(Undefined)
           text == DecodeURIComponent(matches[index])
       IN  IF IsThrown(text) THEN text
           ELSE DecodeMatches(names, matches, index + 1, (key :> text.v) @@ params)

\* The decoder of a prebuilt pair: each part under its name, as it is.
RECURSIVE NameParts(_, _, _, _)
NameParts(names, parts, index, params) ==
  IF index > Len(parts) \/ index > Len(names) THEN Obj(params)
  ELSE NameParts(names, parts, index + 1, (names[index] :> parts[index]) @@ params)

\* No own properties.
NoProperties == << >>

\* A decoder that leaves out the parameters whose match is empty.
Decode_WithoutEmpty(route, matches) ==
  LET params == IF route.template.kind = "string"
                THEN DecodeMatches(route.names, matches, 1, NoProperties)
                ELSE NameParts(route.names, matches, 1, NoProperties)
  IN  IF IsThrown(params) THEN params
      ELSE Obj([key \in { k \in DOMAIN params.v : params.v[k] # << >> } |-> params.v[key]])

\* cb(...match.slice(1)) of a route.
Decode(route, matches) ==
  IF route.template.kind = "string"
  THEN DecodeMatches(route.names, matches, 1, NoProperties)
  ELSE NameParts(route.names, matches, 1, NoProperties)

\* The entry of router.routes for a name of the configuration:
\* [name, RegExp, decoder, value] for a template, [name, ...value] for a pair.
CompileRoute(config, name) ==
  LET value == ConfigValue(config, name)
  IN  IF value.kind = "template"
      THEN LET t == StripTrailingSlash(value.v)
           IN  [name |-> name, regexp |-> TemplateRegExp(t), names |-> ParamNames(t),
                template |-> Str(t)]
      ELSE [name |-> name, regexp |-> value.regexp, names |-> value.names,
            template |-> Undefined]

\* Object.keys(routes).map(name => ...)
RouteTable(config) ==
  LET keys == ObjectKeys(config)
  IN  [k \in 1..Len(keys) |-> CompileRoute(config, keys[k])]

(***************************************************************************)
(* parse.                                                                  *)
(***************************************************************************)

\* The result of parse for a path equal to the memo.
False == [kind |-> "false"]

\* { path, route, params }
Page(path, route, params) ==
  [kind |-> "page", path |-> path, route |-> route, params |-> params]

RECURSIVE FirstIndexOf(_, _, _)
\* The first position from i on where s holds c, or 0.
FirstIndexOf(s, c, i) ==
  IF i > Len(s) THEN 0
  ELSE IF s[i] = c THEN i
  ELSE FirstIndexOf(s, c, i + 1)

\* path.split('?')[0]
BeforeQuery(path) ==
  LET q == FirstIndexOf(path, "?", 1)
  IN  IF q = 0 THEN path ELSE SubSeq(path, 1, q - 1)

RECURSIVE SlashBeforeEnd(_, _)
\* The first position from i on of a "/" that the end of the path or a "?"
\* follows (the match of /\/($|\?)/), or 0.
SlashBeforeEnd(path, i) ==
  IF i > Len(path) THEN 0
  ELSE IF path[i] = "/" /\ (i = Len(path) \/ path[i + 1] = "?") THEN i
  ELSE SlashBeforeEnd(path, i + 1)

\* A normalization that removes no "/".
RemoveSlash_KeepsSlash(path) == IF path = << >> THEN << "/" >> ELSE path

\* path.replace(/\/($|\?)/, '$1') || '/'
RemoveSlash(path) ==
  LET k == SlashBeforeEnd(path, 1)
      replaced == IF k = 0 THEN path
                  ELSE SubSeq(path, 1, k - 1) \o SubSeq(path, k + 1, Len(path))
  IN  IF replaced = << >> THEN << "/" >> ELSE replaced

\* A normalization that keeps the query whatever opts.search is.
NormalizePath_KeepsQuery(path, search) == RemoveSlash(path)

\* The path parse compares with the memo and matches against the routes.
NormalizePath(path, search) ==
  RemoveSlash(IF ~search THEN BeforeQuery(path) ELSE path)

RECURSIVE ScanRoutes(_, _, _)
\* The loop of parse over router.routes from entry k on: the page of the
\* first route whose pattern matches the path, Thrown when its decoder
\* throws, Undefined when no route matches.
ScanRoutes(table, k, path) ==
  IF k > Len(table) THEN Undefined
  ELSE LET match == Match(path, table[k].regexp)
       IN  IF match.ok
           THEN LET params == Decode(table[k], match.caps)
                IN  IF IsThrown(params) THEN params
                    ELSE Page(path, table[k].name, params.v)
           ELSE ScanRoutes(table, k + 1, path)

\* What parse(path) computes from the path and the routes: the normalized
\* path it compares with the memo, and the result of the loop over the
\* routes.
Parsed(path, search, table) ==
  LET normal == NormalizePath(path, search)
  IN  [normal |-> normal, page |-> ScanRoutes(table, 1, normal)]

(***************************************************************************)
(* getPagePath.                                                            *)
(***************************************************************************)

\* The array of the rest arguments of a call.
Arr(elements) == [kind |-> "array", v |-> elements]

\* array[key]: an element for an index in range, the length for "length",
\* and undefined for every other name.  (The names of the methods of
\* Array.prototype are not parameter names of this model.)
RestProperty(elements, key) ==
  IF IsArrayIndex(key) /\ NumVal(key) < Len(elements) THEN elements[NumVal(key) + 1]
  ELSE IF key = << "l", "e", "n", "g", "t", "h" >> THEN Num(Len(elements))
  ELSE Undefined

\* params[key]
Property(params, key) ==
  IF params.kind = "array" THEN RestProperty(params.v, key)
  ELSE IF params.kind = "object" /\ key \in DOMAIN params.v THEN Str(params.v[key])
  ELSE Undefined

RECURSIVE FillOptional(_, _, _)
\* template.replace(/\/:\w+\?/g, i => ...), from position i on.
FillOptional(t, i, params) ==
  IF i > Len(t) THEN << >>
  ELSE LET n == WordRun(t, i + 2)
       IN  IF /\ OccursAt(t, i, << "/", ":" >>)
              /\ n > 0
              /\ OccursAt(t, i + 2 + n, << "?" >>)
           THEN LET param == Property(params, SubSeq(t, i + 2, i + 1 + n))
                IN  (IF Truthy(param)
                     THEN << "/" >> \o EncodeURIComponent(ToStr(param))
                     ELSE << >>)
                    \o FillOptional(t, i + 3 + n, params)
           ELSE << t[i] >> \o FillOptional(t, i + 1, params)

RECURSIVE FillRequired(_, _, _)
\* path.replace(/\/:\w+/g, i => '/' + encodeURIComponent(params[i.slice(2)])),
\* from position i on.
FillRequired(t, i, params) ==
  IF i > Len(t) THEN << >>
  ELSE LET n == WordRun(t, i + 2)
       IN  IF OccursAt(t, i, << "/", ":" >>) /\ n > 0
           THEN << "/" >>
                \o EncodeURIComponent(ToStr(Property(params, SubSeq(t, i + 2, i + 1 + n))))
                \o FillRequired(t, i + 2 + n, params)
           ELSE << t[i] >> \o FillRequired(t, i + 1, params)

\* template.replace(...).replace(...) || '/'
Substitute(template, params) ==
  LET path == FillRequired(FillOptional(template, 1, params), 1, params)
  IN  IF path = << >> THEN << "/" >> ELSE path

\* router.routes.find(i => i[0] === name)?.[3]
TemplateOf(table, name) ==
  IF \E k \in 1..Len(table) : table[k].name = name
  THEN table[CHOOSE k \in 1..Len(table) :
               /\ table[k].name = name
               /\ \A j \in 1..(k - 1) : table[j].name # name].template
  ELSE Undefined

\* A getPagePath that throws for a route without a template under every
\* NODE_ENV.
GetPagePath_AlwaysThrows(table, name, args, production) ==
  LET template == TemplateOf(table, name)
  IN  IF template.kind = "undefined" THEN Thrown("Error")
      ELSE Str(Substitute(template.v, Arr(args)))

\* getPagePath(router, name, ...params): Str(path), or Thrown("Error") for a
\* route without a template unless NODE_ENV is 'production'.  params is the
\* array of the arguments after the name.
GetPagePath(table, name, args, production) ==
  LET template == TemplateOf(table, name)
  IN  IF ~production /\ template.kind = "undefined" THEN Thrown("Error")
      ELSE IF template.kind = "undefined" THEN Str(<< "/" >>)
      ELSE Str(Substitute(template.v, Arr(args)))

(***************************************************************************)
(* The browser: the session history and the location.                      *)
(***************************************************************************)

\* The text of href before its fragment.
BeforeHash(href) ==
  LET h == FirstIndexOf(href, "#", 1)
  IN  IF h = 0 THEN href ELSE SubSeq(href, 1, h - 1)

\* location.pathname + location.search of an entry whose URL was given as
\* href (a path that starts with "/"): the fragment is not part of it, and
\* the search of a URL with an empty query ("/a?") is the empty string.
PathAndSearch(href) ==
  LET u == BeforeHash(href)
      pathname == BeforeQuery(u)
      search == SubSeq(u, Len(pathname) + 1, Len(u))
  IN  IF Len(search) <= 1 THEN pathname ELSE pathname \o search

\* location.hash or url.hash of a URL given as href: the fragment with its
\* "#", or the empty string when the URL has no fragment or an empty one.
HashOf(href) ==
  LET h == FirstIndexOf(href, "#", 1)
  IN  IF h = 0 \/ h = Len(href) THEN << >> ELSE SubSeq(href, h, Len(href))

\* history.pushState(null, '', url): the entries after the current one are
\* dropped and a new entry becomes the current one.
PushState(entries, i, url) ==
  [entries |-> Append(SubSeq(entries, 1, i), url), index |-> i + 1]

\* A replaceState that adds an entry, as pushState does.
ReplaceState_Pushes(entries, i, url) == PushState(entries, i, url)

\* history.replaceState(null, '', url): the current entry gets the URL.
ReplaceState(entries, i, url) ==
  [entries |-> [entries EXCEPT ![i] = url], index |-> i]

\* location.hash = hash: the session histories the browser can leave.  A
\* fragment that differs from the current one adds an entry for the current
\* URL with the new fragment.  The empty string gives the URL an empty
\* fragment ("#"); browsers differ in whether that adds an entry when the
\* URL had no fragment, so both outcomes are possible.
AssignHash(entries, i, hash) ==
  LET url == BeforeHash(entries[i]) \o (IF hash = << >> THEN << "#" >> ELSE hash)
      same == [entries |-> entries, index |-> i]
  IN  IF url = entries[i] THEN { same }
      ELSE IF hash = << >> /\ BeforeHash(entries[i]) = entries[i]
      THEN { same, PushState(entries, i, url) }
      ELSE { PushState(entries, i, url) }

(***************************************************************************)
(* The search params store (createSearchParams).                           *)
(***************************************************************************)

\* location.pathname of a URL given as href.
PathnameOf(href) == BeforeQuery(BeforeHash(href))

\* location.search or url.search of a URL given as href: the query with its
\* "?", or the empty string when the URL has no query or an empty one.
SearchOf(href) ==
  LET u == BeforeHash(href)
      query == SubSeq(u, Len(PathnameOf(href)) + 1, Len(u))
  IN  IF Len(query) <= 1 THEN << >> ELSE query

\* The characters the application/x-www-form-urlencoded serializer leaves
\* as they are.
FormSafe == UpperCase \cup LowerCase \cup Digits \cup {"*", "-", ".", "_"}

RECURSIVE FormEncode(_)
\* The application/x-www-form-urlencoded form of a string of ASCII
\* characters.
FormEncode(s) ==
  IF s = << >> THEN << >>
  ELSE LET c == Head(s)
       IN  (IF c \in FormSafe THEN << c >>
            ELSE IF c = " " THEN << "+" >>
            ELSE << "%", HexChar(Ord(c) \div 16), HexChar(Ord(c) % 16) >>)
           \o FormEncode(Tail(s))

RECURSIVE Serialize(_, _)
\* new URLSearchParams(params).toString(), from the k-th property of params
\* on.  params is the sequence of the properties << name, value >> of the
\* object, in the order of its keys.
Serialize(params, k) ==
  IF k > Len(params) THEN << >>
  ELSE (IF k > 1 THEN << "&" >> ELSE << >>)
       \o FormEncode(params[k][1]) \o << "=" >> \o FormEncode(params[k][2])
       \o Serialize(params, k + 1)

\* let search = new URLSearchParams(params).toString()
\* if (search) search = '?' + search
SearchString(params) ==
  LET search == Serialize(params, 1)
  IN  IF search = << >> THEN << >> ELSE << "?" >> \o search

RECURSIVE FormDecode(_)
\* The string a name or a value of a query stands for: "+" is a space and
\* "%XX" the character of that code; a "%" that no two hexadecimal digits
\* follow stands for itself.
FormDecode(s) ==
  IF s = << >> THEN << >>
  ELSE IF Head(s) = "+" THEN << " " >> \o FormDecode(Tail(s))
  ELSE IF Head(s) = "%" /\ Len(s) >= 3 /\ s[2] \in HexDigits /\ s[3] \in HexDigits
       THEN << Chr(16 * HexVal(s[2]) + HexVal(s[3])) >> \o FormDecode(SubSeq(s, 4, Len(s)))
  ELSE << Head(s) >> \o FormDecode(Tail(s))

\* The pair << name, value >> of one piece name=value of a query.
QueryPair(piece) ==
  LET e == FirstIndexOf(piece, "=", 1)
  IN  IF e = 0 THEN << FormDecode(piece), << >> >>
      ELSE << FormDecode(SubSeq(piece, 1, e - 1)),
              FormDecode(SubSeq(piece, e + 1, Len(piece))) >>

RECURSIVE QueryPairs(_)
\* url.searchParams of a query (without its "?"): the pairs of its pieces
\* between "&", the empty pieces left out.
QueryPairs(query) ==
  IF query = << >> THEN << >>
  ELSE LET a == FirstIndexOf(query, "&", 1)
           piece == IF a = 0 THEN query ELSE SubSeq(query, 1, a - 1)
           rest == IF a = 0 THEN << >> ELSE SubSeq(query, a + 1, Len(query))
       IN  (IF piece = << >> THEN << >> ELSE << QueryPair(piece) >>) \o QueryPairs(rest)

\* The object with the properties of a sequence of pairs << name, value >>:
\* of two pairs with one name the later one gives the value.
FromEntries(pairs) ==
  Obj([name \in { pairs[k][1] : k \in DOMAIN pairs } |->
        pairs[CHOOSE k \in DOMAIN pairs :
                /\ pairs[k][1] = name
                /\ \A j \in (k + 1)..Len(pairs) : pairs[j][1] # name][2]])

\* Object.fromEntries(url.searchParams) of a URL given as href.
SearchParamsOf(href) ==
  LET search == SearchOf(href)
  IN  FromEntries(QueryPairs(SubSeq(search, 2, Len(search))))

\* An href without the fragment of the location.
StoreHref_WithoutHash(location, search) == PathnameOf(location) \o search

\* let href = location.pathname + search + location.hash
StoreHref(location, search) == PathnameOf(location) \o search \o HashOf(location)

(***************************************************************************)
(* The configurations, paths and parameters the model runs on.             *)
(***************************************************************************)

\* The longest session history of the model.
MaxHistory == 2

Posts == << "/", "p", "o", "s", "t", "s" >>

Guides == << "g", "u", "i", "d", "e", "s" >>

CategoryId == << "c", "a", "t", "e", "g", "o", "r", "y", "I", "d" >>

\* /^\/files\/([^/]+)$/
FilesRegExp ==
  [atoms |-> << CharAtom("/", "one"), CharAtom("f", "one"), CharAtom("i", "one"),
                CharAtom("l", "one"), CharAtom("e", "one"), CharAtom("s", "one"),
                CharAtom("/", "one"), GroupAtom(1) >>,
   ci |-> FALSE]

\* The configurations, each in the order its entries are declared:
\*  1: { home: '/', category: '/posts/:categoryId', post: '/posts/:categoryId/:id' }
\*  2: { tag: '/posts/:tag?', news: '/posts/news', file: [/^\/files\/([^/]+)$/, id => ({ id })] }
\*  3: { home: '/', 404: '/:page?' }
Configs ==
  << << Entry(<< "h", "o", "m", "e" >>, Template(<< "/" >>)),
        Entry(<< "c", "a", "t", "e", "g", "o", "r", "y" >>,
              Template(Posts \o << "/", ":" >> \o CategoryId)),
        Entry(<< "p", "o", "s", "t" >>,
              Template(Posts \o << "/", ":" >> \o CategoryId \o << "/", ":", "i", "d" >>)) >>,
     << Entry(<< "t", "a", "g" >>, Template(Posts \o << "/", ":", "t", "a", "g", "?" >>)),
        Entry(<< "n", "e", "w", "s" >>, Template(Posts \o << "/", "n", "e", "w", "s" >>)),
        Entry(<< "f", "i", "l", "e" >>, Pattern(FilesRegExp, << << "i", "d" >> >>)) >>,
     << Entry(<< "h", "o", "m", "e" >>, Template(<< "/" >>)),
        Entry(<< "4", "0", "4" >>, Template(<< "/", ":", "p", "a", "g", "e", "?" >>)) >> >>

\* The paths router.open is called with, for each configuration.
Paths ==
  << { Posts \o << "/" >> \o Guides,
       Posts \o << "/" >> \o Guides \o << "?", "q", "=", "b" >>,
       Posts \o << "/", "%" >> },
     { Posts,
       Posts \o << "/", "n", "e", "w", "s" >>,
       Posts \o << "/", "%", "4", "1" >>,
       Posts \o << "/", "%", "z" >>,
       << "/", "f", "i", "l", "e", "s", "/", "a" >> },
     { << "/" >>,
       << "/", "x" >>,
       << "/", "x", "/" >>,
       << "/", "x", "?", "q", "=", "b" >>,
       << "/", "x", "/", "y" >> } >>

\* The routers the model creates: createRouter(Configs[config], { search,
\* links }) under a NODE_ENV.
World(c, s, l, p) == [config |-> c, search |-> s, links |-> l, production |-> p]

Worlds ==
  { World(1, FALSE, TRUE, FALSE),
    World(2, FALSE, TRUE, FALSE), World(2, FALSE, FALSE, TRUE),
    World(3, FALSE, TRUE, FALSE), World(3, TRUE, FALSE, TRUE) }

\* The URLs the page is loaded at, for each configuration.
InitialHrefs ==
  << { Posts \o << "/" >> \o Guides, Posts \o << "/", "%" >> },
     { Posts, Posts \o << "/", "%", "z" >> },
     { << "/" >> } >>

\* The href of the links of the page that are clicked, for each
\* configuration, without a fragment or with the fragment "#h".
Links ==
  << { Posts \o << "/" >> \o Guides },
     { Posts \o << "#", "h" >> },
     { << "/", "x" >>, << "/", "x", "#", "h" >> } >>

\* The params objects openPage and redirectPage are called with, for each
\* configuration.
ParamsObjects ==
  << { (CategoryId :> Guides) @@ (<< "i", "d" >> :> << "1", "0" >>) },
     { (<< "t", "a", "g" >> :> << "n", "e", "w", "s" >>) },
     { (<< "p", "a", "g", "e" >> :> << "x" >>) } >>

\* The params objects getPagePath is called with: those above, and objects
\* that lack a parameter, hold an empty one, or hold one that is encoded.
PathParams ==
  << ParamsObjects[1] \cup { (CategoryId :> Guides) },
     ParamsObjects[2] \cup { (<< "t", "a", "g" >> :> << >>),
                            (<< "t", "a", "g" >> :> << "a", "/", "b" >>),
                            (<< "i", "d" >> :> << "a" >>) },
     ParamsObjects[3] \cup { (<< "p", "a", "g", "e" >> :> << "a", " ", "b" >>) } >>

\* The arguments after the route name, of openPage and redirectPage: one
\* params object.
ArgLists(c) == { << Obj(o) >> : o \in ParamsObjects[c] }

\* The arguments after the route name, of getPagePath: none, or one params
\* object.
PathArgLists(c) == { << >> } \cup { << Obj(o) >> : o \in PathParams[c] }

\* The route names of a configuration.
RouteNames(c) == { Configs[c][k].name : k \in 1..Len(Configs[c]) }

\* getPagePath on a route table, for each route name and arguments of a
\* configuration.
BuiltTable(c, table, production) ==
  [name \in RouteNames(c) |->
    [args \in PathArgLists(c) |-> GetPagePath(table, name, args, production)]]

\* The URLs an entry of the session history can hold: those given to
\* router.open, those getPagePath builds, and those the page is loaded at.
Hrefs(c, built) ==
  Paths[c] \cup InitialHrefs[c] \cup Links[c]
  \cup { built[x[1]][x[2]].v :
           x \in { y \in RouteNames(c) \X ArgLists(c) : ~IsThrown(built[y[1]][y[2]]) } }

\* What parse computes on a route table, for each path it can be given.
ParsedTable(c, table, search, built) ==
  [path \in Hrefs(c, built) \cup { PathAndSearch(h) : h \in Hrefs(c, built) } |->
    Parsed(path, search, table)]

\* The URLs the page of a search params store is loaded at.
SearchHrefs == { << "/", "a" >>, << "/", "a", "?", "x", "=", "1", "#", "h" >> }

\* The params the open of the search params store is called with, each the
\* sequence of the properties of the object: {}, { x: '1' }, { x: 'a b' }.
SearchParams ==
  { << >>,
    << << << "x" >>, << "1" >> >> >>,
    << << << "x" >>, << "a", " ", "b" >> >> >> }

\* The href of the links clicked on the page of a search params store.
SearchLinks ==
  { << "/", "a" >>,
    << "/", "a", "?", "x", "=", "1" >>,
    << "/", "a", "?", "x", "=", "1", "#", "h" >>,
    << "/", "a", "?", "x", "=", "a", "+", "b" >> }

\* The strings written in place of the markers of a template: 'guides',
\* '%41', '%', '' and 'a?b'.
Strings ==
  { Guides, << "%", "4", "1" >>, << "%" >>, << >>, << "a", "?", "b" >> }

RECURSIVE WriteIn(_, _, _)
\* The template t, from position i on, with the string of each parameter
\* written in place of the "/" + ":" + name of its marker, after a "/".
WriteIn(t, i, assignment) ==
  IF i > Len(t) THEN << >>
  ELSE LET n == WordRun(t, i + 2)
       IN  IF OccursAt(t, i, << "/", ":" >>) /\ n > 0
           THEN << "/" >> \o assignment[SubSeq(t, i + 2, i + 1 + n)]
                \o WriteIn(t, i + 2 + n, assignment)
           ELSE << t[i] >> \o WriteIn(t, i + 1, assignment)

\* The template of the route has parameters, all of them required.
RequiredOnly(route) ==
  /\ route.template.kind = "string"
  /\ route.names # << >>
  /\ \A i \in DOMAIN route.template.v : route.template.v[i] # "?"

\* The assignments of Strings to the parameters of a route.
Assignments(route) == [{ route.names[k] : k \in DOMAIN route.names } -> Strings]

\* The paths parse is called with on its own, for each configuration: the
\* templates with required parameters filled in, the paths of router.open
\* with and without one more "/" at the end, and paths around the template
\* with an optional parameter.
ParsePaths(c) ==
  LET table == RouteTable(Configs[c])
  IN  { WriteIn(table[x[1]].template.v, 1, x[2]) :
          x \in { y \in (DOMAIN table) \X UNION { Assignments(table[k]) : k \in DOMAIN table } :
                    /\ RequiredOnly(table[y[1]])
                    /\ y[2] \in Assignments(table[y[1]]) } }
      \cup Paths[c]
      \cup { path \o << "/" >> : path \in Paths[c] }
      \cup { Posts \o << "n", "e", "w", "s" >>, Posts \o << "/", "a", "/", "b" >>, Posts }

(***************************************************************************)
(* The state.                                                              *)
(***************************************************************************)

VARIABLES
  config,            \* which configuration createRouter was given
  routes,            \* router.routes
  built,             \* what getPagePath returns on this router (it is pure;
                     \* computed once, when the router is created)
  parsed,            \* what parse computes on this router for each path
                     \* (computed once, when the router is created)
  search,            \* opts.search is true
  links,             \* opts.links !== false
  production,        \* process.env.NODE_ENV === 'production'
  state,             \* the value of the router atom
  prev,              \* the memo of parse
  entries,           \* the URLs of the session history
  index,             \* the current entry: location is entries[index]
  subscribed,        \* the router atom has a subscriber
  cleanup,           \* the connect hook returned its cleanup function
  popstateListener,  \* handlePopstate is attached to window
  clickListener,     \* click is attached to document.body
  store,             \* the value of the search params atom
  storePrev,         \* the memo of the search params store
  storeSubscribed,   \* the search params atom has a subscriber
  storePopstate,     \* its handlePopstate is attached to window
  storeClick,        \* its handleClick is attached to document.body
  lastOp             \* the operation that ran last, and what it did

vars ==
  << config, routes, built, parsed, search, links, production, state, prev, entries, index,
     subscribed, cleanup, popstateListener, clickListener, store, storePrev,
     storeSubscribed, storePopstate, storeClick, lastOp >>

env == << config, routes, built, parsed, search, links, production >>

listeners == << subscribed, cleanup, popstateListener, clickListener >>

\* The search params store, which the operations of the router leave alone.
searchParams == << store, storePrev, storeSubscribed, storePopstate, storeClick >>

\* The router, which the operations of the search params store leave alone.
router == << state, prev, subscribed, cleanup, popstateListener, clickListener >>

\* parse(path): its result, and the memo it leaves.  The memo is written
\* before the routes are scanned, so it is written also when a decoder throws.
Parse(path) ==
  LET p == parsed[path]
  IN  IF prev = Str(p.normal) THEN [page |-> False, prev |-> prev]
      ELSE [page |-> p.page, prev |-> Str(p.normal)]

\* getPagePath(router, name, ...args) on this router.
PagePath(name, args) == built[name][args]

\* What lastOp records: the operation and its arguments, how it ended
\* ("page", "undefined" or "false" for the result of parse, "URIError" or
\* "Error" for an exception, "done" otherwise), the value getPagePath
\* returned, and how often it wrote the router atom, pushed an entry and
\* replaced one.
Op(op, path, redirect, name, args, outcome, returned, writes, pushes, replaces) ==
  [op |-> op, path |-> path, redirect |-> redirect, name |-> name, args |-> args,
   outcome |-> outcome, returned |-> returned, writes |-> writes, pushes |-> pushes,
   replaces |-> replaces]

\* location.pathname + location.search
Location == PathAndSearch(entries[index])

\* The state after createSearchParams, before anything subscribes.
CreatedSearchParams ==
  /\ store = EmptyObject
  /\ storePrev = Undefined
  /\ storeSubscribed = FALSE
  /\ storePopstate = FALSE
  /\ storeClick = FALSE

\* The state after createRouter, in world w, before anything subscribes,
\* but for the paths parse is computed for.
CreatedRouter(w) ==
  /\ CreatedSearchParams
  /\ config = w.config
  /\ search = w.search
  /\ links = w.links
  /\ production = w.production
  /\ routes = RouteTable(Configs[config])
  /\ built = BuiltTable(config, routes, production)
  /\ state = EmptyObject
  /\ prev = Undefined
  /\ \E href \in InitialHrefs[config] : entries = << href >>
  /\ index = 1
  /\ subscribed = FALSE
  /\ cleanup = FALSE
  /\ popstateListener = FALSE
  /\ clickListener = FALSE
  /\ lastOp = Op("init", << >>, FALSE, << >>, << >>, "done", Undefined, 0, 0, 0)

\* The state after createRouter, in world w, before anything subscribes.
Created(w) ==
  /\ CreatedRouter(w)
  /\ parsed = ParsedTable(config, routes, search, built)

Init == \E w \in Worlds : Created(w)

(***************************************************************************)
(* The operations.                                                         *)
(***************************************************************************)

\* A test that lets only pages through: if (page).
IsWritten_OnlyPages(page) == page.kind = "page"

\* if (page !== false): the result of parse is written to the router atom
\* unless it is the marker of an unchanged path.
IsWritten(page) == page.kind # "false"

\* The body of router.open(path, redirect), called as operation op.
RouterOpen(op, path, redirect, name, args, returned) ==
  LET r == Parse(path)
      h == IF redirect THEN ReplaceState(entries, index, path)
           ELSE PushState(entries, index, path)
  IN  /\ prev' = r.prev
      /\ IF IsThrown(r.page)
         THEN /\ UNCHANGED << state, entries, index >>
              /\ lastOp' = Op(op, path, redirect, name, args, r.page.error, returned,
                              0, 0, 0)
         ELSE IF IsWritten(r.page)
         THEN /\ ~redirect => index < MaxHistory
              /\ entries' = h.entries
              /\ index' = h.index
              /\ state' = r.page
              /\ lastOp' = Op(op, path, redirect, name, args, r.page.kind, returned,
                              1, IF redirect THEN 0 ELSE 1, IF redirect THEN 1 ELSE 0)
         ELSE /\ UNCHANGED << state, entries, index >>
              /\ lastOp' = Op(op, path, redirect, name, args, r.page.kind, returned,
                              0, 0, 0)
      /\ UNCHANGED << env, searchParams, listeners >>

\* router.open(path, redirect)
Open(path, redirect) == RouterOpen("open", path, redirect, << >>, << >>, Undefined)

\* getPagePath(router, name, ...args)
CallGetPagePath(name, args) ==
  LET path == PagePath(name, args)
  IN  /\ lastOp' = Op("getPagePath", << >>, FALSE, name, args,
                      IF IsThrown(path) THEN path.error ELSE "done", path, 0, 0, 0)
      /\ UNCHANGED << env, searchParams, listeners, state, prev, entries, index >>

\* The body of openPage and redirectPage:
\* router.open(getPagePath(router, name, ...args), redirect)
OpenBuilt(op, name, args, redirect) ==
  LET path == PagePath(name, args)
  IN  IF IsThrown(path)
      THEN /\ lastOp' = Op(op, << >>, redirect, name, args, path.error, path, 0, 0, 0)
           /\ UNCHANGED << env, searchParams, listeners, state, prev, entries, index >>
      ELSE RouterOpen(op, path.v, redirect, name, args, path)

\* openPage(router, name, ...args)
OpenPage(name, args) == OpenBuilt("openPage", name, args, FALSE)

\* redirectPage(router, name, ...args)
RedirectPage(name, args) == OpenBuilt("redirectPage", name, args, TRUE)

\* The first subscriber connects: the hook of onConnect runs.  When parse
\* throws, the hook ends there: no listener is attached and no cleanup
\* function is returned.
Connect ==
  LET r == Parse(Location)
  IN  /\ ~subscribed
      /\ subscribed' = TRUE
      /\ prev' = r.prev
      /\ IF IsThrown(r.page)
         THEN /\ UNCHANGED << state, cleanup, popstateListener, clickListener >>
              /\ lastOp' = Op("connect", Location, FALSE, << >>, << >>, r.page.error,
                              Undefined, 0, 0, 0)
         ELSE /\ state' = IF IsWritten(r.page) THEN r.page ELSE state
              /\ clickListener' = (clickListener \/ links)
              /\ popstateListener' = TRUE
              /\ cleanup' = TRUE
              /\ lastOp' = Op("connect", Location, FALSE, << >>, << >>, r.page.kind,
                              Undefined, IF IsWritten(r.page) THEN 1 ELSE 0, 0, 0)
      /\ UNCHANGED << env, searchParams, entries, index >>

\* The last subscriber disconnects: the cleanup function runs, if the hook
\* returned one.
Disconnect ==
  /\ subscribed
  /\ subscribed' = FALSE
  /\ IF cleanup
     THEN /\ prev' = Undefined
          /\ clickListener' = FALSE
          /\ popstateListener' = FALSE
          /\ cleanup' = FALSE
     ELSE UNCHANGED << prev, clickListener, popstateListener, cleanup >>
  /\ lastOp' = Op("disconnect", << >>, FALSE, << >>, << >>, "done", Undefined, 0, 0, 0)
  /\ UNCHANGED << env, searchParams, state, entries, index >>

\* The browser moves to the entry at position i and fires popstate: the
\* popstate action runs if handlePopstate is attached.
Traverse(i) ==
  LET location == PathAndSearch(entries[i])
      r == Parse(location)
  IN  /\ index' = i
      /\ IF ~popstateListener
         THEN /\ UNCHANGED << state, prev >>
              /\ lastOp' = Op("traverse", location, FALSE, << >>, << >>, "done",
                              Undefined, 0, 0, 0)
         ELSE /\ prev' = r.prev
              /\ state' = IF ~IsThrown(r.page) /\ IsWritten(r.page) THEN r.page ELSE state
              /\ lastOp' = Op("popstate", location, FALSE, << >>, << >>,
                              IF IsThrown(r.page) THEN r.page.error ELSE r.page.kind,
                              Undefined,
                              IF ~IsThrown(r.page) /\ IsWritten(r.page) THEN 1 ELSE 0,
                              0, 0)
      /\ UNCHANGED << env, searchParams, listeners, entries >>

\* The user goes back.
GoBack == index > 1 /\ Traverse(index - 1)

\* The user goes forward.
GoForward == index < Len(entries) /\ Traverse(index + 1)

\* A click on a link <a href> of the page, when the click listener is
\* attached.  plain: the event and the link pass the test of the handler (an
\* unprevented click of the main button without modifier keys on a link of
\* the same origin that has no target '_blank', no data-no-router, no rel
\* 'external' and no download attribute).  The handler prevents the default
\* action, opens url.pathname + url.search and then, if the fragment of the
\* link differs from the one the location had before, assigns it to
\* location.hash.  When router.open throws, the handler ends there.
Click(href, plain) ==
  LET path == PathAndSearch(href)
      changed == HashOf(entries[index]) # HashOf(href)
      r == Parse(path)
      written == ~IsThrown(r.page) /\ IsWritten(r.page)
      opened == IF written THEN PushState(entries, index, path)
                ELSE [entries |-> entries, index |-> index]
  IN  /\ clickListener
      /\ IF ~plain
         THEN /\ lastOp' = Op("click", href, FALSE, << >>, << >>, "ignored", Undefined,
                              0, 0, 0)
              /\ UNCHANGED << state, prev, entries, index >>
         ELSE /\ prev' = r.prev
              /\ state' = IF written THEN r.page ELSE state
              /\ \E h \in (IF ~IsThrown(r.page) /\ changed
                           THEN AssignHash(opened.entries, opened.index, HashOf(href))
                           ELSE { opened }) :
                   /\ h.index <= MaxHistory
                   /\ entries' = h.entries
                   /\ index' = h.index
              /\ lastOp' = Op("click", href, FALSE, << >>, << >>,
                              IF IsThrown(r.page) THEN r.page.error ELSE r.page.kind,
                              Undefined, IF written THEN 1 ELSE 0,
                              IF written THEN 1 ELSE 0, 0)
      /\ UNCHANGED << env, searchParams, listeners >>

Next ==
  \/ \E path \in Paths[config], redirect \in BOOLEAN : Open(path, redirect)
  \/ \E name \in RouteNames(config), args \in ArgLists(config) : OpenPage(name, args)
  \/ \E name \in RouteNames(config), args \in ArgLists(config) : RedirectPage(name, args)
  \/ Connect
  \/ Disconnect
  \/ GoBack
  \/ GoForward
  \/ \E href \in Links[config], plain \in BOOLEAN : Click(href, plain)

Spec == Init /\ [][Next]_vars

(***************************************************************************)
(* getPagePath alone: a pure function of the route table, the route name   *)
(* and the arguments, applied to every configuration under every option    *)
(* and NODE_ENV.                                                           *)
(***************************************************************************)

InitPath ==
  \E c \in 1..Len(Configs), s \in BOOLEAN, l \in BOOLEAN, p \in BOOLEAN :
    Created(World(c, s, l, p))

NextPath ==
  \E name \in RouteNames(config), args \in PathArgLists(config) :
    CallGetPagePath(name, args)

SpecPath == InitPath /\ [][NextPath]_vars

(***************************************************************************)
(* The search params store on its own page: createSearchParams({ links }),  *)
(* its open, the clicks on links, the moves in the session history and the *)
(* subscriptions.                                                          *)
(***************************************************************************)

\* What a step of the search params store leaves as it is.
StoreFrame == UNCHANGED << env, router >>

\* store.open(params, redirect)
SearchOpen(params, redirect) ==
  LET query == SearchString(params)
      href == StoreHref(entries[index], query)
      h == IF redirect THEN ReplaceState(entries, index, href)
           ELSE PushState(entries, index, href)
  IN  /\ IF storePrev = Str(query)
         THEN /\ UNCHANGED << store, storePrev, entries, index >>
              /\ lastOp' = Op("searchOpen", href, redirect, << >>, params, "unchanged",
                              Undefined, 0, 0, 0)
         ELSE /\ ~redirect => index < MaxHistory
              /\ storePrev' = Str(query)
              /\ entries' = h.entries
              /\ index' = h.index
              /\ store' = FromEntries(params)
              /\ lastOp' = Op("searchOpen", href, redirect, << >>, params, "written",
                              Undefined, 1, IF redirect THEN 0 ELSE 1,
                              IF redirect THEN 1 ELSE 0)
      /\ UNCHANGED << storeSubscribed, storePopstate, storeClick >>
      /\ StoreFrame

\* update(ctx, href), called as operation op: the memo and the value of the
\* store afterwards, and whether it wrote them.
Update(href) ==
  IF storePrev = Str(SearchOf(href))
  THEN [prev |-> storePrev, store |-> store, written |-> FALSE]
  ELSE [prev |-> Str(SearchOf(href)), store |-> SearchParamsOf(href), written |-> TRUE]

\* The first subscriber of the store connects: the hook runs popstate and
\* attaches the listeners.
SearchConnect ==
  LET u == Update(entries[index])
  IN  /\ ~storeSubscribed
      /\ storeSubscribed' = TRUE
      /\ storePrev' = u.prev
      /\ store' = u.store
      /\ storeClick' = links
      /\ storePopstate' = TRUE
      /\ lastOp' = Op("searchConnect", entries[index], FALSE, << >>, << >>,
                      IF u.written THEN "written" ELSE "unchanged", Undefined,
                      IF u.written THEN 1 ELSE 0, 0, 0)
      /\ UNCHANGED << entries, index >>
      /\ StoreFrame

\* The last subscriber of the store disconnects: the cleanup function
\* removes the listeners.  The memo stays.
SearchDisconnect ==
  /\ storeSubscribed
  /\ storeSubscribed' = FALSE
  /\ storeClick' = FALSE
  /\ storePopstate' = FALSE
  /\ lastOp' = Op("searchDisconnect", << >>, FALSE, << >>, << >>, "done", Undefined,
                  0, 0, 0)
  /\ UNCHANGED << store, storePrev, entries, index >>
  /\ StoreFrame

\* The browser moves to the entry at position i and fires popstate: the
\* popstate action of the store runs if its handlePopstate is attached.
SearchTraverse(i) ==
  LET u == Update(entries[i])
  IN  /\ index' = i
      /\ IF ~storePopstate
         THEN /\ UNCHANGED << store, storePrev >>
              /\ lastOp' = Op("searchTraverse", entries[i], FALSE, << >>, << >>, "done",
                              Undefined, 0, 0, 0)
         ELSE /\ storePrev' = u.prev
              /\ store' = u.store
              /\ lastOp' = Op("searchPopstate", entries[i], FALSE, << >>, << >>,
                              IF u.written THEN "written" ELSE "unchanged", Undefined,
                              IF u.written THEN 1 ELSE 0, 0, 0)
      /\ UNCHANGED << entries, storeSubscribed, storePopstate, storeClick >>
      /\ StoreFrame

\* The user goes back on the page of the store.
SearchBack == index > 1 /\ SearchTraverse(index - 1)

\* The user goes forward on the page of the store.
SearchForward == index < Len(entries) /\ SearchTraverse(index + 1)

\* A click on a link <a href> of the page, when the click listener of the
\* store is attached.  plain: the event and the link pass the test of the
\* handler.  The handler writes the memo and the store when the query of
\* the link is not the memo; when the link has the pathname and the
\* fragment of the location, it prevents the default action and pushes the
\* href.  Otherwise the browser follows the link: a link that differs from
\* the location in its fragment alone adds an entry to the session history
\* (outcome "followed"); a link to another document ends the page, and is
\* not clicked here.
SearchClick(href, plain) ==
  LET location == entries[index]
      differs == Str(SearchOf(href)) # storePrev
      handled == /\ PathnameOf(href) = PathnameOf(location)
                 /\ HashOf(href) = HashOf(location)
      h == PushState(entries, index, href)
  IN  /\ storeClick
      /\ IF ~plain
         THEN /\ lastOp' = Op("searchClick", href, FALSE, << >>, << >>, "ignored",
                              Undefined, 0, 0, 0)
              /\ UNCHANGED << store, storePrev, entries, index >>
         ELSE /\ handled \/ BeforeHash(href) = BeforeHash(location)
              /\ index < MaxHistory
              /\ storePrev' = IF differs THEN Str(SearchOf(href)) ELSE storePrev
              /\ store' = IF differs THEN SearchParamsOf(href) ELSE store
              /\ entries' = h.entries
              /\ index' = h.index
              /\ lastOp' = Op("searchClick", href, FALSE, << >>, << >>,
                              IF handled THEN (IF differs THEN "written" ELSE "unchanged")
                              ELSE "followed",
                              Undefined, IF differs THEN 1 ELSE 0,
                              IF handled THEN 1 ELSE 0, 0)
      /\ UNCHANGED << storeSubscribed, storePopstate, storeClick >>
      /\ StoreFrame

\* The page of a search params store: createSearchParams({ links }) on a
\* page loaded at one of SearchHrefs.  The router of the page is never used.
InitSearch ==
  /\ CreatedSearchParams
  /\ config = 1
  /\ search = FALSE
  /\ links \in BOOLEAN
  /\ production = FALSE
  /\ routes = RouteTable(Configs[config])
  /\ built = BuiltTable(config, routes, production)
  /\ parsed = ParsedTable(config, routes, search, built)
  /\ state = EmptyObject
  /\ prev = Undefined
  /\ \E href \in SearchHrefs : entries = << href >>
  /\ index = 1
  /\ subscribed = FALSE
  /\ cleanup = FALSE
  /\ popstateListener = FALSE
  /\ clickListener = FALSE
  /\ lastOp = Op("init", << >>, FALSE, << >>, << >>, "done", Undefined, 0, 0, 0)

NextSearch ==
  \/ \E params \in SearchParams, redirect \in BOOLEAN : SearchOpen(params, redirect)
  \/ SearchConnect
  \/ SearchDisconnect
  \/ SearchBack
  \/ SearchForward
  \/ \E href \in SearchLinks, plain \in BOOLEAN : SearchClick(href, plain)

SpecSearch == InitSearch /\ [][NextSearch]_vars

(***************************************************************************)
(* parse alone: the function of createRouter, called with a path on a      *)
(* router whose memo the calls before have left, for every configuration   *)
(* with and without the search option.                                     *)
(***************************************************************************)

\* What parse(path) returns when the memo is memo.
ParseResult(memo, path) ==
  IF memo = Str(parsed[path].normal) THEN False ELSE parsed[path].page

\* parse(path).  lastOp records the memo before the call and the result.
CallParse(path) ==
  LET r == Parse(path)
  IN  /\ prev' = r.prev
      /\ lastOp' = Op("parse", path, FALSE, << >>, << prev >>,
                      IF IsThrown(r.page) THEN r.page.error ELSE r.page.kind, r.page,
                      0, 0, 0)
      /\ UNCHANGED << env, searchParams, listeners, state, entries, index >>

\* prev = undefined, as the cleanup of the connect hook leaves the memo.
ResetMemo ==
  /\ prev # Undefined
  /\ prev' = Undefined
  /\ lastOp' = Op("reset", << >>, FALSE, << >>, << >>, "done", Undefined, 0, 0, 0)
  /\ UNCHANGED << env, searchParams, listeners, state, entries, index >>

InitParse ==
  \E c \in 1..Len(Configs), s \in BOOLEAN :
    /\ CreatedRouter(World(c, s, TRUE, FALSE))
    /\ parsed = [path \in ParsePaths(c) \cup { PathAndSearch(h) : h \in InitialHrefs[c] } |->
                  Parsed(path, search, routes)]

NextParse ==
  \/ \E path \in DOMAIN parsed : CallParse(path)
  \/ ResetMemo

SpecParse == InitParse /\ [][NextParse]_vars

(***************************************************************************)
(* The properties.                                                         *)
(***************************************************************************)

\* The operation o called router.open (openPage and redirectPage do not
\* when getPagePath throws).
CalledOpen(o) == o.op \in { "open", "openPage", "redirectPage" } /\ o.outcome # "Error"

\* The operation o called parse.
CalledParse(o) == CalledOpen(o) \/ o.op \in { "connect", "popstate" }

\* This step mutates the history once: it replaces the URL of the current
\* entry when redirect is true, and pushes the URL otherwise.
HistoryMutatedOnce(redirect, url) ==
  IF redirect
  THEN /\ entries' = [entries EXCEPT ![index] = url]
       /\ Len(entries') = Len(entries)
       /\ index' = index
  ELSE /\ entries' = Append(SubSeq(entries, 1, index), url)
       /\ index' = index + 1

\* The params mapping of a call: its first argument after the route name, or
\* an empty mapping.
ParamsOf(args) == IF args = << >> THEN EmptyObject ELSE args[1]

\* The set of the elements of a sequence.
Range(s) == { s[i] : i \in DOMAIN s }

\* C1: when router.open(path, redirect) parses the path to a page, it mutates
\* the history exactly once, by a replacement of the current entry when
\* redirect is true and by a push of the raw path otherwise, and afterwards
\* the router state is that page.
C1_OpenWritesPageAndHistoryOnce ==
  [][(CalledOpen(lastOp') /\ lastOp'.outcome = "page") =>
       /\ state' = parsed[lastOp'.path].page
       /\ state'.kind = "page"
       /\ lastOp'.writes = 1
       /\ lastOp'.pushes + lastOp'.replaces = 1
       /\ lastOp'.replaces = (IF lastOp'.redirect THEN 1 ELSE 0)
       /\ HistoryMutatedOnce(lastOp'.redirect, lastOp'.path)]_vars

\* router.open(path, true) found a page and replaced the entry a push had
\* added.
C1_Witness ==
  /\ lastOp.op = "open"
  /\ lastOp.outcome = "page"
  /\ lastOp.redirect
  /\ Len(entries) = 2
  /\ index = 2
  /\ entries[index] = lastOp.path
  /\ state = parsed[lastOp.path].page

\* C2, as stated: when no route matches the path, router.open(path,
\* redirect) changes neither the router state nor the history.
C2_OpenUnmatchedChangesNothing ==
  [][(CalledOpen(lastOp') /\ parsed[lastOp'.path].page.kind = "undefined") =>
       UNCHANGED << state, entries, index >>]_vars

\* C2, amended: when no route matches the path, router.open(path, redirect)
\* changes neither the router state nor the history if the normalized path
\* equals the memo; otherwise it sets the router state to undefined and
\* mutates the history exactly once, by a replacement when redirect is true
\* and by a push of the raw path otherwise.
C2_OpenUnmatchedUnsetsState ==
  [][(CalledOpen(lastOp') /\ parsed[lastOp'.path].page.kind = "undefined") =>
       IF prev = Str(parsed[lastOp'.path].normal)
       THEN /\ lastOp'.outcome = "false"
            /\ UNCHANGED << state, entries, index >>
       ELSE /\ lastOp'.outcome = "undefined"
            /\ state' = Undefined
            /\ lastOp'.writes = 1
            /\ lastOp'.pushes + lastOp'.replaces = 1
            /\ HistoryMutatedOnce(lastOp'.redirect, lastOp'.path)]_vars

\* router.open(path) on a path no route matches pushed the path and left the
\* router state undefined.
C2_Witness ==
  /\ lastOp.op = "open"
  /\ lastOp.outcome = "undefined"
  /\ ~lastOp.redirect
  /\ lastOp.pushes = 1
  /\ entries[index] = lastOp.path
  /\ state = Undefined

\* C3: of two consecutive calls router.open(p1), router.open(p2) whose paths
\* normalize to the same path, the second changes neither the router state
\* nor the history, and the first, unless its path was the memo already,
\* writes the router state once and mutates the history once.
C3_SecondOpenChangesNothing ==
  [][(/\ CalledOpen(lastOp)
      /\ CalledOpen(lastOp')
      /\ parsed[lastOp.path].normal = parsed[lastOp'.path].normal) =>
       /\ lastOp'.outcome = "false"
       /\ UNCHANGED << state, entries, index >>
       /\ lastOp.outcome # "false" =>
            lastOp.writes = 1 /\ lastOp.pushes + lastOp.replaces = 1]_vars

\* C4: for a route with a template, getPagePath returns the template with
\* every optional marker replaced by '/' and the encoded params[p] when
\* params[p] is truthy and by nothing otherwise, every required marker
\* replaced by '/' and the encoded params[p], and '/' when that is empty;
\* the template '/posts/:categoryId/:id' with { categoryId: 'guides', id:
\* '10' } gives '/posts/guides/10'.
C4_GetPagePathSubstitutesParams ==
  (/\ lastOp.op = "getPagePath"
   /\ TemplateOf(routes, lastOp.name).kind = "string") =>
    /\ lastOp.returned =
         Str(Substitute(TemplateOf(routes, lastOp.name).v, ParamsOf(lastOp.args)))
    /\ (/\ TemplateOf(routes, lastOp.name).v
             = Posts \o << "/", ":" >> \o CategoryId \o << "/", ":", "i", "d" >>
        /\ lastOp.args
             = << Obj((CategoryId :> Guides) @@ (<< "i", "d" >> :> << "1", "0" >>)) >>) =>
         lastOp.returned = Str(Posts \o << "/" >> \o Guides \o << "/", "1", "0" >>)

\* The route named name is the first of the table that matches the path.
FirstToMatch(name, path) ==
  LET page == ScanRoutes(routes, 1, path)
  IN  page.kind = "page" /\ page.route = name

\* C5: for a route with a template that no earlier route shadows, and a
\* params mapping of non-empty values for its parameters, openPage and
\* redirectPage leave the router state a page of that route with the params
\* passed in, unless the built path was the memo.
C5_OpenPageRoundTrip ==
  (/\ lastOp.op \in { "openPage", "redirectPage" }
   /\ TemplateOf(routes, lastOp.name).kind = "string"
   /\ lastOp.outcome # "false"
   /\ LET template == TemplateOf(routes, lastOp.name).v
          params == ParamsOf(lastOp.args)
      IN  /\ DOMAIN params.v = Range(ParamNames(template))
          /\ \A key \in DOMAIN params.v : params.v[key] # << >>
          /\ FirstToMatch(lastOp.name, Substitute(template, params))) =>
    /\ state.kind = "page"
    /\ state.route = lastOp.name
    /\ state.params = ParamsOf(lastOp.args).v

\* The entry declared at position k matches the path.
DeclaredMatches(k, path) ==
  Match(path, CompileRoute(Configs[config], Configs[config][k].name).regexp).ok

\* C6: router.routes lists the entries of the configuration in the order
\* they are declared, also when a name is integer-like, and a path that
\* several routes match parses to the page of the route declared first.
C6_DeclarationOrder ==
  /\ Len(routes) = Len(Configs[config])
  /\ \A k \in DOMAIN routes : routes[k].name = Configs[config][k].name
  /\ (CalledParse(lastOp) /\ lastOp.outcome = "page") =>
       LET path == parsed[lastOp.path].normal
           first == CHOOSE k \in DOMAIN Configs[config] :
                      /\ DeclaredMatches(k, path)
                      /\ \A j \in 1..(k - 1) : ~DeclaredMatches(j, path)
       IN  state.route = Configs[config][first].name

\* The position of the last "/" of a template, or 0.
LastSlash(t) ==
  IF \E i \in DOMAIN t : t[i] = "/"
  THEN CHOOSE i \in DOMAIN t : t[i] = "/" /\ \A j \in (i + 1)..Len(t) : t[j] # "/"
  ELSE 0

\* The last segment of the template of the route is an optional parameter,
\* and no segment before it is a parameter.
EndsInOptional(route) ==
  /\ route.template.kind = "string"
  /\ LET t == route.template.v
         j == LastSlash(t)
     IN  /\ j > 0
         /\ Len(t) >= j + 3
         /\ t[j + 1] = ":"
         /\ t[Len(t)] = "?"
         /\ \A i \in (j + 2)..(Len(t) - 1) : t[i] \in WordChars
         /\ \A i \in 1..(j - 1) : t[i] # ":"

\* The name of that parameter.
OptionalName(route) ==
  SubSeq(route.template.v, LastSlash(route.template.v) + 2, Len(route.template.v) - 1)

\* The template without that segment.
OptionalPrefix(route) == SubSeq(route.template.v, 1, LastSlash(route.template.v) - 1)

\* The path is the template of the route with the optional segment omitted.
SegmentOmitted(route, path) ==
  path = (IF OptionalPrefix(route) = << >> THEN << "/" >> ELSE OptionalPrefix(route))

\* The segment of the path after the prefix of the template.
LastSegment(route, path) == SubSeq(path, Len(OptionalPrefix(route)) + 2, Len(path))

\* The path is the template of the route with the optional segment present.
SegmentPresent(route, path) ==
  /\ Len(path) > Len(OptionalPrefix(route)) + 1
  /\ SubSeq(path, 1, Len(OptionalPrefix(route)) + 1) = OptionalPrefix(route) \o << "/" >>
  /\ \A i \in DOMAIN LastSegment(route, path) : LastSegment(route, path)[i] # "/"

\* What the decoder of the route gives for a path with the segment present:
\* the parameter mapped to the decoded segment, or the URIError of a segment
\* that is no percent-encoding.
PresentParams(route, path) ==
  LET text == DecodeURIComponent(LastSegment(route, path))
  IN  IF IsThrown(text) THEN text ELSE Obj(OptionalName(route) :> text.v)

\* The pattern of the route matches the path and its decoder gives expected,
\* which is then the params of the page parse returned for this route.
ParsesTo(route, path, expected) ==
  LET match == Match(path, route.regexp)
  IN  /\ match.ok
      /\ Decode(route, match.caps) = expected
      /\ (lastOp.outcome = "page" /\ state.route = route.name) =>
           state.params = expected.v

\* C7, as stated: for a template whose last segment is an optional
\* parameter, parse succeeds with the segment present and with it omitted;
\* present, the params map the parameter to the decoded segment (of a segment
\* that decodes); omitted, the params have no entry for the parameter.
C7_OmittedOptionalHasNoEntry ==
  CalledParse(lastOp) =>
    \A k \in DOMAIN routes :
      EndsInOptional(routes[k]) =>
        LET path == parsed[lastOp.path].normal
        IN  /\ SegmentOmitted(routes[k], path) =>
                 ParsesTo(routes[k], path, Obj(NoProperties))
            /\ (/\ SegmentPresent(routes[k], path)
                /\ ~IsThrown(DecodeURIComponent(LastSegment(routes[k], path)))) =>
                 ParsesTo(routes[k], path, PresentParams(routes[k], path))

\* C7, amended: for a template whose last segment is an optional parameter,
\* the pattern matches the path with the segment present and with it
\* omitted; present, the params map the parameter to the decoded segment, or
\* parse throws a URIError when the segment is no percent-encoding; omitted,
\* the params map the parameter to the empty string.
C7_OmittedOptionalIsEmptyString ==
  CalledParse(lastOp) =>
    \A k \in DOMAIN routes :
      EndsInOptional(routes[k]) =>
        LET path == parsed[lastOp.path].normal
        IN  /\ SegmentOmitted(routes[k], path) =>
                 ParsesTo(routes[k], path, Obj(OptionalName(routes[k]) :> << >>))
            /\ SegmentPresent(routes[k], path) =>
                 ParsesTo(routes[k], path, PresentParams(routes[k], path))

\* router.open parsed a path that omits the optional segment of its route:
\* the params of the page map the parameter to the empty string.
C7_Witness ==
  /\ lastOp.op = "open"
  /\ lastOp.outcome = "page"
  /\ \E k \in DOMAIN routes :
       /\ EndsInOptional(routes[k])
       /\ state.route = routes[k].name
       /\ SegmentOmitted(routes[k], state.path)
       /\ state.params = (OptionalName(routes[k]) :> << >>)

\* openPage or redirectPage is called for a route without a template.
OpensCustomRoute(o) ==
  /\ o.op \in { "openPage", "redirectPage" }
  /\ TemplateOf(routes, o.name).kind = "undefined"

\* C8, as stated: for a route without a template, getPagePath throws under
\* every NODE_ENV and returns no path, and openPage and redirectPage change
\* neither the router state nor the history.
C8_CustomRouteAlwaysThrows ==
  [][OpensCustomRoute(lastOp') =>
       /\ lastOp'.returned = Thrown("Error")
       /\ UNCHANGED << state, entries, index >>]_vars

\* C8, amended: for a route without a template, getPagePath throws unless
\* NODE_ENV is 'production', and then openPage and redirectPage change
\* neither the router state nor the history; under 'production' it returns
\* '/', and openPage and redirectPage do what router.open('/', redirect)
\* does.
C8_CustomRouteThrowsOutsideProduction ==
  [][OpensCustomRoute(lastOp') =>
       IF ~production
       THEN /\ lastOp'.returned = Thrown("Error")
            /\ lastOp'.outcome = "Error"
            /\ UNCHANGED << state, prev, entries, index >>
       ELSE /\ lastOp'.returned = Str(<< "/" >>)
            /\ lastOp'.path = << "/" >>
            /\ lastOp'.redirect = (lastOp'.op = "redirectPage")
            /\ prev' = Str(parsed[<< "/" >>].normal)
            /\ IF prev = Str(parsed[<< "/" >>].normal)
               THEN UNCHANGED << state, entries, index >>
               ELSE /\ state' = parsed[<< "/" >>].page
                    /\ HistoryMutatedOnce(lastOp'.redirect, << "/" >>)]_vars

\* Under 'production', openPage for a route without a template got '/' from
\* getPagePath and opened it.
C8_Witness ==
  /\ production
  /\ lastOp.op = "openPage"
  /\ TemplateOf(routes, lastOp.name).kind = "undefined"
  /\ lastOp.returned = Str(<< "/" >>)
  /\ lastOp.outcome = "undefined"
  /\ entries[index] = << "/" >>
  /\ state = Undefined

\* C9: parse never fails: open, the popstate action and the connect hook end
\* with a page, with no page or unchanged, and the only hard failure is that
\* of getPagePath for a route without a template.
C9_OnlyGetPagePathFails ==
  lastOp.outcome \in { "URIError", "Error" } =>
    /\ lastOp.op \in { "getPagePath", "openPage", "redirectPage" }
    /\ lastOp.outcome = "Error"
    /\ TemplateOf(routes, lastOp.name).kind = "undefined"

\* C10: when the last subscriber disconnects the memo is unset, and the
\* connect that follows a disconnect parses the location and writes the
\* result to the router state, whatever was parsed before.
C10_DisconnectUnsetsMemo ==
  [][/\ lastOp'.op = "disconnect" => prev' = Undefined
     /\ (lastOp.op = "disconnect" /\ lastOp'.op = "connect") =>
          /\ lastOp'.writes = 1
          /\ state' = parsed[lastOp'.path].page]_vars


\* C11: store.open(params, redirect) of the search params store changes
\* neither the history nor the store when the serialized query string is the
\* memo; otherwise, in one step, the memo becomes the query string, the store
\* becomes params, and the history is mutated once with pathname + query +
\* hash: the current entry is replaced when redirect is true, an entry is
\* pushed otherwise.
C11_SearchOpenOnlyOnChange ==
  [][lastOp'.op = "searchOpen" =>
       LET query == SearchString(lastOp'.args)
           location == entries[index]
       IN  IF storePrev = Str(query)
           THEN /\ lastOp'.outcome = "unchanged"
                /\ UNCHANGED << store, storePrev, entries, index >>
           ELSE /\ storePrev' = Str(query)
                /\ store' = FromEntries(lastOp'.args)
                /\ lastOp'.pushes + lastOp'.replaces = 1
                /\ HistoryMutatedOnce(lastOp'.redirect,
                                      PathnameOf(location) \o query \o HashOf(location))]_vars

\* store.open({ x: 'a b' }, true) replaced the entry of a location with the
\* fragment "#h".
C11_Witness ==
  /\ lastOp.op = "searchOpen"
  /\ lastOp.outcome = "written"
  /\ lastOp.redirect
  /\ entries[index] = << "/", "a", "?", "x", "=", "a", "+", "b", "#", "h" >>
  /\ storePrev = Str(<< "?", "x", "=", "a", "+", "b" >>)
  /\ store = Obj(<< "x" >> :> << "a", " ", "b" >>)


\* The pattern of the route matches the path and its decoder gives expected,
\* which is then what the call of parse returned for this route.
DecodesTo(route, path, expected) ==
  LET match == Match(path, route.regexp)
  IN  /\ match.ok
      /\ Decode(route, match.caps) = expected
      /\ (lastOp.returned.kind = "page" /\ lastOp.returned.route = route.name) =>
           lastOp.returned.params = expected.v

\* The last operation was parse, called with the template of the route with
\* the strings of the assignment written in place of its markers.
ParsedWritten(route, assignment) ==
  /\ lastOp.op = "parse"
  /\ RequiredOnly(route)
  /\ lastOp.path = WriteIn(route.template.v, 1, assignment)

\* No string of the assignment is empty or holds a "?".
NonEmptyWithoutQuery(assignment) ==
  \A name \in DOMAIN assignment :
    /\ assignment[name] # << >>
    /\ \A i \in DOMAIN assignment[name] : assignment[name][i] # "?"

\* What the decoder gives for the strings of an assignment: each parameter
\* mapped to its decoded string, or the URIError of a string that is no
\* percent-encoding.
DecodedAssignment(assignment) ==
  IF \E name \in DOMAIN assignment : IsThrown(DecodeURIComponent(assignment[name]))
  THEN Thrown("URIError")
  ELSE Obj([name \in DOMAIN assignment |-> DecodeURIComponent(assignment[name]).v])

\* C12, as stated: for a template with only required parameters and every
\* assignment of strings without "/" to them, the path with each string
\* written in place of its marker matches the template and decodes to the
\* assignment.
C12_RoundTripOfAnyStrings ==
  \A k \in DOMAIN routes :
    \A assignment \in Assignments(routes[k]) :
      ParsedWritten(routes[k], assignment) =>
        DecodesTo(routes[k], parsed[lastOp.path].normal, Obj(assignment))

\* C12, amended: for a template with only required parameters and every
\* assignment of non-empty strings without "/" and "?" to them, the path
\* with each string written in place of its marker matches the template; it
\* decodes to the mapping of each parameter to its URL-decoded string, which
\* is the assignment when no string holds a "%", and parse throws a URIError
\* when a string is no percent-encoding.
C12_RoundTripDecodes ==
  \A k \in DOMAIN routes :
    \A assignment \in Assignments(routes[k]) :
      (ParsedWritten(routes[k], assignment) /\ NonEmptyWithoutQuery(assignment)) =>
        /\ DecodesTo(routes[k], parsed[lastOp.path].normal, DecodedAssignment(assignment))
        /\ (\A name \in DOMAIN assignment :
              \A i \in DOMAIN assignment[name] : assignment[name][i] # "%") =>
             Decode(routes[k], Match(parsed[lastOp.path].normal, routes[k].regexp).caps)
               = Obj(assignment)

\* parse('/posts/guides/%41') returned the page of '/posts/:categoryId/:id'
\* with the id 'A'.
C12_Witness ==
  /\ lastOp.op = "parse"
  /\ lastOp.path = Posts \o << "/" >> \o Guides \o << "/", "%", "4", "1" >>
  /\ lastOp.returned.kind = "page"
  /\ lastOp.returned.route = << "p", "o", "s", "t" >>
  /\ lastOp.returned.params = (CategoryId :> Guides) @@ (<< "i", "d" >> :> << "A" >>)


\* The last operation was parse, called with a path p + '/' for a path p
\* that is not the root.
ParsedWithSlash ==
  /\ lastOp.op = "parse"
  /\ Len(lastOp.path) > 1
  /\ lastOp.path[Len(lastOp.path)] = "/"
  /\ SubSeq(lastOp.path, 1, Len(lastOp.path) - 1) # << "/" >>
  /\ SubSeq(lastOp.path, 1, Len(lastOp.path) - 1) \in DOMAIN parsed

\* The path p of ParsedWithSlash.
WithoutLastSlash == SubSeq(lastOp.path, 1, Len(lastOp.path) - 1)

\* C13, as stated: for every path p but the root and every memo, parse(p +
\* '/') and parse(p) from that memo return the same result, and no path is
\* normalized to the empty string.
C13_SlashParsesAlike ==
  /\ lastOp.op = "parse" => parsed[lastOp.path].normal # << >>
  /\ ParsedWithSlash => lastOp.returned = ParseResult(lastOp.args[1], WithoutLastSlash)

\* C13, amended: for every path p but the root in which no "/" stands at the
\* end or before a "?", and every memo, parse(p + '/') and parse(p) from
\* that memo return the same result; and no path is normalized to the empty
\* string.
C13_SlashOfNormalPathParsesAlike ==
  /\ lastOp.op = "parse" => parsed[lastOp.path].normal # << >>
  /\ (ParsedWithSlash /\ SlashBeforeEnd(WithoutLastSlash, 1) = 0) =>
       lastOp.returned = ParseResult(lastOp.args[1], WithoutLastSlash)

\* parse('/posts/guides/') returned the page of the path '/posts/guides'.
C13_Witness ==
  /\ lastOp.op = "parse"
  /\ lastOp.path = Posts \o << "/" >> \o Guides \o << "/" >>
  /\ lastOp.returned.kind = "page"
  /\ lastOp.returned.path = Posts \o << "/" >> \o Guides
  /\ lastOp.returned = ParseResult(lastOp.args[1], Posts \o << "/" >> \o Guides)


\* C14: the pattern of a template whose last segment is an optional
\* parameter accepts exactly the paths with that segment present as '/' and
\* a value or absent: for '/posts/:tag?' it accepts '/posts' and '/posts/'
\* with one segment and rejects every other path, '/postsnews' among them.
C14_OptionalAcceptsExactly ==
  lastOp.op = "parse" =>
    \A k \in DOMAIN routes :
      EndsInOptional(routes[k]) =>
        LET path == parsed[lastOp.path].normal
        IN  Match(path, routes[k].regexp).ok
              <=> (SegmentOmitted(routes[k], path) \/ SegmentPresent(routes[k], path))


\* C15: the value of the router atom is always undefined or a page with a
\* path, a route and params, and it is undefined before the first parse.
C15_StateIsUnsetOrPage ==
  /\ state.kind \in { "undefined", "page" }
  /\ state.kind = "page" => DOMAIN state = { "kind", "path", "route", "params" }
  /\ lastOp.op = "init" => state = Undefined

\* C16: the popstate action and the connect hook never push or replace an
\* entry of the history; they parse the location and write the result to the
\* router atom unless the location is the memo.
C16_PopstateAndConnectOnlyWrite ==
  [][lastOp'.op \in { "connect", "popstate" } =>
       /\ entries' = entries
       /\ lastOp'.op = "connect" => index' = index
       /\ lastOp'.pushes = 0
       /\ lastOp'.replaces = 0
       /\ lastOp'.path = PathAndSearch(entries'[index'])
       /\ IF prev = Str(parsed[lastOp'.path].normal)
          THEN state' = state
          ELSE state' = parsed[lastOp'.path].page]_vars

\* C17: for the router and for the search params store, the popstate
\* listener is attached exactly while the store has a subscriber, and the
\* click listener exactly while it has one and the links option is not
\* false; so after a disconnect no listener of the store is attached.
C17_ListenersFollowSubscription ==
  /\ popstateListener = subscribed
  /\ clickListener = (subscribed /\ links)
  /\ storePopstate = storeSubscribed
  /\ storeClick = (storeSubscribed /\ links)

\* C18: whenever the memo of the router is set, the value of the router
\* atom is the result of matching the memoized path against the routes: the
\* page of the first route that matches, or undefined when none does.
C18_StateAgreesWithMemo ==
  \A path \in DOMAIN parsed :
    prev = Str(parsed[path].normal) => state = parsed[path].page

\* C19: without the search option, router.open(p + '?' + q) when the memo
\* holds p is unchanged: it writes no router state, pushes and replaces no
\* entry, and the location keeps the query it had.
C19_QueryOnlyOpenIsUnchanged ==
  [][(/\ ~search
      /\ CalledOpen(lastOp')
      /\ \E i \in DOMAIN lastOp'.path : lastOp'.path[i] = "?"
      /\ prev = Str(RemoveSlash(BeforeQuery(lastOp'.path)))) =>
       /\ lastOp'.outcome = "false"
       /\ lastOp'.writes = 0
       /\ lastOp'.pushes + lastOp'.replaces = 0
       /\ UNCHANGED << state, entries, index >>
       /\ entries'[index'] = entries[index]]_vars

\* router.open('/posts/guides?q=b') after the memo held '/posts/guides' was
\* unchanged, and the location has no query.
C19_Witness ==
  /\ ~search
  /\ lastOp.op = "open"
  /\ lastOp.outcome = "false"
  /\ FirstIndexOf(lastOp.path, "?", 1) > 0
  /\ prev = Str(BeforeQuery(lastOp.path))
  /\ state.kind = "page"
  /\ SearchOf(entries[index]) = << >>

\* C20: every entry the search params store adds to the history, by its open
\* or by a click on a link that it handles, comes with a change of its memo;
\* an event whose query is the memo adds no entry.
C20_StorePushesOnlyOnChange ==
  [][(lastOp'.op \in { "searchOpen", "searchClick" } /\ lastOp'.pushes = 1) =>
       storePrev' # storePrev]_vars

====
